---- MODULE Spec2Model ----
(***************************************************************************)
(* Authentication and session core of PDI Finance                          *)
(* (backend/app/services/auth_service.py, backend/app/core/security.py,    *)
(* backend/app/core/dependencies.py, backend/app/api/auth.py).             *)
(*                                                                         *)
(* Time is counted in minutes.  A token is modelled by its payload plus a  *)
(* flag saying whether it carries a signature made with SECRET_KEY.        *)
(***************************************************************************)
EXTENDS Integers, Sequences, FiniteSets, TLC

VARIABLES usuarios, sessoes, auditoria, tokens, now, resp, chamadas

vars == <<usuarios, sessoes, auditoria, tokens, now, resp, chamadas>>

----------------------------------------------------------------------------
(* Settings (backend/app/core/config.py) *)

MAX_LOGIN_ATTEMPTS == 5
LOGIN_BLOCK_MINUTES == 15
ACCESS_TOKEN_EXPIRE_MINUTES == 30
REFRESH_TOKEN_EXPIRE_DAYS == 7

MinutesPerDay == 1440

(* Bounds of the model *)

MaxAudit == 6       \* rows of auditoria_login the model lets accumulate
MaxOutros == 1      \* of which rows that are not attempts on the Admin account
MaxTokens == 2      \* tokens signed by the process and kept
MaxTime == 17       \* last minute the clock reaches
TickMinutes == 8    \* minutes the clock advances in one step
MaxChamadas == 2    \* login requests the server works on at the same time
MaxSessoes == 4     \* tokens signed and kept where several logins succeed

----------------------------------------------------------------------------
(* Values *)

NULL == -1          \* a nullable column holding NULL / Python None
NoToken == 0        \* no token in a response or request

Emails == {"admin@pdifinance.com", "inativo@pdifinance.com", "ninguem@pdifinance.com"}
Senhas == {"Admin@2025", "errada"}

\* the logins that are tried: both passwords on the Admin account, the right
\* password on the deactivated one, a wrong one on an email nobody has
Credenciais ==
    {<<"admin@pdifinance.com", "Admin@2025">>, <<"admin@pdifinance.com", "errada">>,
     <<"inativo@pdifinance.com", "Admin@2025">>, <<"ninguem@pdifinance.com", "errada">>}
Schemes == {"Bearer", "bearer"}

UsuarioIds == {1, 2}
NoUsuario == 0      \* a query that matched no row

----------------------------------------------------------------------------
(* Password hasher (backend/app/core/security.py) *)

hash_password(password) == [scheme |-> "bcrypt", plain |-> password]

\* pwd_context.verify raises on a hash it does not recognise
verify_raises(hashed_password) == hashed_password.scheme # "bcrypt"

verify_password(plain_password, hashed_password) ==
    hashed_password.plain = plain_password

----------------------------------------------------------------------------
(* Token codec (backend/app/core/security.py) *)

\* str(usuario.id) and usuario.id: the same id, carried as a string or as an
\* integer in the "sub" claim
SubStr(id) == [repr |-> "str", val |-> id]
SubInt(id) == [repr |-> "int", val |-> id]

TokenData(sub, email, perfil) == [sub |-> sub, email |-> email, perfil |-> perfil]

create_access_token(data, jti, t) ==
    [sub |-> data.sub, email |-> data.email, perfil |-> data.perfil,
     exp |-> t + ACCESS_TOKEN_EXPIRE_MINUTES, iat |-> t,
     type |-> "access", jti |-> jti, assinado |-> TRUE]

create_refresh_token(data, jti, t) ==
    [sub |-> data.sub, email |-> data.email, perfil |-> data.perfil,
     exp |-> t + REFRESH_TOKEN_EXPIRE_DAYS * MinutesPerDay, iat |-> t,
     type |-> "refresh", jti |-> jti, assinado |-> TRUE]

\* a decode that does not look at exp
decode_token_raises_SemExp(token, t) ==
    \/ ~token.assinado
    \/ token.sub.repr # "str"

\* jwt.decode (python-jose) raises a JWTError when the signature does not
\* verify, when exp < now ("Signature has expired.") and when the "sub" claim
\* is not a string ("Subject must be a string."); decode_token turns each
\* into HTTP 401
decode_token_raises(token, t) ==
    \/ ~token.assinado
    \/ token.exp < t
    \/ token.sub.repr # "str"

\* a kind test that accepts any kind
verify_token_type_Qualquer(payload, expected_type) == TRUE

verify_token_type(payload, expected_type) == payload.type = expected_type

\* a token made outside the process: a payload naming the Admin, and a
\* signature not made with SECRET_KEY
TokenForjado ==
    [sub |-> SubStr(1), email |-> "admin@pdifinance.com", perfil |-> "Admin",
     exp |-> REFRESH_TOKEN_EXPIRE_DAYS * MinutesPerDay, iat |-> 0,
     type |-> "refresh", jti |-> 2, assinado |-> FALSE]

----------------------------------------------------------------------------
(* Tables *)

UsuarioPorEmail(us, email) ==
    IF \E id \in UsuarioIds : us[id].email = email
    THEN CHOOSE id \in UsuarioIds : us[id].email = email
    ELSE NoUsuario

\* usuario row for an id taken from a "sub" claim; the id is compared by value
UsuarioPorId(us, id) == IF id \in UsuarioIds THEN id ELSE NoUsuario

\* db.query(Sessao).filter(Sessao.token_jti == jti).first(): index of the row, 0 if none
SessaoPorJti(ss, jti) ==
    IF \E i \in 1..Len(ss) : ss[i].token_jti = jti
    THEN CHOOSE i \in 1..Len(ss) :
            /\ ss[i].token_jti = jti
            /\ \A j \in 1..(i - 1) : ss[j].token_jti # jti
    ELSE 0

\* the comparison of the lockout check with its direction inverted
Bloqueado_Invertido(u, t) == u.bloqueado_ate # NULL /\ u.bloqueado_ate < t

\* a lockout check that never fires
Bloqueado_Nunca(u, t) == FALSE

\* "usuario.bloqueado_ate and usuario.bloqueado_ate > datetime.utcnow()"
Bloqueado(u, t) == u.bloqueado_ate # NULL /\ u.bloqueado_ate > t

----------------------------------------------------------------------------
(* AuthService._registrar_tentativa_login: the row it adds *)

\* an audit row that never names the account
_registrar_tentativa_login_SemConta(usuario_id, email, sucesso, mensagem) ==
    [usuario_id |-> NULL, email_tentativa |-> email,
     sucesso |-> sucesso, mensagem |-> mensagem]

_registrar_tentativa_login(usuario_id, email, sucesso, mensagem) ==
    [usuario_id |-> usuario_id, email_tentativa |-> email,
     sucesso |-> sucesso, mensagem |-> mensagem]

\* the limit test off by one
AtingiuLimite_Estrito(tentativas) == tentativas > MAX_LOGIN_ATTEMPTS

\* "if usuario.tentativas_login >= settings.MAX_LOGIN_ATTEMPTS"
AtingiuLimite(tentativas) == tentativas >= MAX_LOGIN_ATTEMPTS

\* a successful login that forgets to clear the lockout expiry
LoginBemSucedido_SemDesbloqueio(u, t) ==
    [u EXCEPT !.tentativas_login = 0, !.ultimo_login = t]

\* the account row after a successful login
LoginBemSucedido(u, t) ==
    [u EXCEPT !.tentativas_login = 0, !.bloqueado_ate = NULL, !.ultimo_login = t]

(* AuthService.authenticate_user: the tables after the call, the audit row   *)
(* it writes and what it returns or raises                                   *)

AuthResult(us, entrada, ok, id, status, detail) ==
    [usuarios |-> us, entrada |-> entrada, ok |-> ok, usuario_id |-> id,
     status |-> status, detail |-> detail]

\* an authenticate_user that counts from 0 again once the lockout has expired
authenticate_user_ZeraAoExpirar(us, email, senha, t) ==
    LET id == UsuarioPorEmail(us, email) IN
    IF id = NoUsuario THEN
        AuthResult(us,
            _registrar_tentativa_login(NULL, email, FALSE, "Usuario nao encontrado"),
            FALSE, NoUsuario, 401, "Email ou senha incorretos")
    ELSE IF ~us[id].ativo THEN
        AuthResult(us,
            _registrar_tentativa_login(id, email, FALSE, "Usuario inativo"),
            FALSE, id, 403, "Usuario inativo. Entre em contato com o administrador.")
    ELSE IF Bloqueado(us[id], t) THEN
        LET minutos_restantes == us[id].bloqueado_ate - t IN
        AuthResult(us,
            _registrar_tentativa_login(id, email, FALSE,
                "Usuario bloqueado por " \o ToString(minutos_restantes) \o " minutos"),
            FALSE, id, 403,
            "Usuario temporariamente bloqueado. Tente novamente em "
                \o ToString(minutos_restantes) \o " minutos.")
    ELSE
        LET senha_valida == IF verify_raises(us[id].senha_hash) THEN FALSE
                            ELSE verify_password(senha, us[id].senha_hash)
            tentativas == (IF us[id].bloqueado_ate # NULL THEN 0
                           ELSE us[id].tentativas_login) + 1
        IN
        IF ~senha_valida THEN
            IF AtingiuLimite(tentativas) THEN
                AuthResult(
                    [us EXCEPT ![id].tentativas_login = tentativas,
                               ![id].bloqueado_ate = t + LOGIN_BLOCK_MINUTES],
                    _registrar_tentativa_login(id, email, FALSE,
                        "Conta bloqueada por " \o ToString(LOGIN_BLOCK_MINUTES) \o " minutos"),
                    FALSE, id, 403,
                    "Conta bloqueada por " \o ToString(LOGIN_BLOCK_MINUTES)
                        \o " minutos devido a multiplas tentativas falhas.")
            ELSE
                LET tentativas_restantes == MAX_LOGIN_ATTEMPTS - tentativas IN
                AuthResult(
                    [us EXCEPT ![id].tentativas_login = tentativas,
                               ![id].bloqueado_ate = NULL],
                    _registrar_tentativa_login(id, email, FALSE,
                        "Senha incorreta. Tentativas restantes: " \o ToString(tentativas_restantes)),
                    FALSE, id, 401,
                    "Email ou senha incorretos. Tentativas restantes: "
                        \o ToString(tentativas_restantes))
        ELSE
            AuthResult(
                [us EXCEPT ![id] = LoginBemSucedido(us[id], t)],
                _registrar_tentativa_login(id, email, TRUE, "Login realizado com sucesso"),
                TRUE, id, 200, "Login realizado com sucesso")

authenticate_user(us, email, senha, t) ==
    LET id == UsuarioPorEmail(us, email) IN
    IF id = NoUsuario THEN
        AuthResult(us,
            _registrar_tentativa_login(NULL, email, FALSE, "Usuario nao encontrado"),
            FALSE, NoUsuario, 401, "Email ou senha incorretos")
    ELSE IF ~us[id].ativo THEN
        AuthResult(us,
            _registrar_tentativa_login(id, email, FALSE, "Usuario inativo"),
            FALSE, id, 403, "Usuario inativo. Entre em contato com o administrador.")
    ELSE IF Bloqueado(us[id], t) THEN
        LET minutos_restantes == us[id].bloqueado_ate - t IN
        AuthResult(us,
            _registrar_tentativa_login(id, email, FALSE,
                "Usuario bloqueado por " \o ToString(minutos_restantes) \o " minutos"),
            FALSE, id, 403,
            "Usuario temporariamente bloqueado. Tente novamente em "
                \o ToString(minutos_restantes) \o " minutos.")
    ELSE
        LET senha_valida == IF verify_raises(us[id].senha_hash) THEN FALSE
                            ELSE verify_password(senha, us[id].senha_hash)
            tentativas == us[id].tentativas_login + 1
        IN
        IF ~senha_valida THEN
            IF AtingiuLimite(tentativas) THEN
                AuthResult(
                    [us EXCEPT ![id].tentativas_login = tentativas,
                               ![id].bloqueado_ate = t + LOGIN_BLOCK_MINUTES],
                    _registrar_tentativa_login(id, email, FALSE,
                        "Conta bloqueada por " \o ToString(LOGIN_BLOCK_MINUTES) \o " minutos"),
                    FALSE, id, 403,
                    "Conta bloqueada por " \o ToString(LOGIN_BLOCK_MINUTES)
                        \o " minutos devido a multiplas tentativas falhas.")
            ELSE
                LET tentativas_restantes == MAX_LOGIN_ATTEMPTS - tentativas IN
                AuthResult(
                    [us EXCEPT ![id].tentativas_login = tentativas],
                    _registrar_tentativa_login(id, email, FALSE,
                        "Senha incorreta. Tentativas restantes: " \o ToString(tentativas_restantes)),
                    FALSE, id, 401,
                    "Email ou senha incorretos. Tentativas restantes: "
                        \o ToString(tentativas_restantes))
        ELSE
            AuthResult(
                [us EXCEPT ![id] = LoginBemSucedido(us[id], t)],
                _registrar_tentativa_login(id, email, TRUE, "Login realizado com sucesso"),
                TRUE, id, 200, "Login realizado com sucesso")

----------------------------------------------------------------------------
(* AuthService.create_tokens: the two tokens and the two rows of sessoes *)

\* a row stored already revoked
NovaSessao_Revogada(usuario_id, payload) ==
    [usuario_id |-> usuario_id, token_jti |-> payload.jti,
     expira_em |-> payload.exp, revogado |-> TRUE]

NovaSessao(usuario_id, payload) ==
    [usuario_id |-> usuario_id, token_jti |-> payload.jti,
     expira_em |-> payload.exp, revogado |-> FALSE]

LoginTokenData(us, id) == TokenData(SubStr(id), us[id].email, us[id].perfil)

\* a create_tokens that stores the row of the access token only
create_tokens_SoAccess(us, id, jti, t) ==
    LET token_data == LoginTokenData(us, id)
        access_token == create_access_token(token_data, jti, t)
        refresh_token == create_refresh_token(token_data, jti + 1, t)
    IN [access_token |-> access_token, refresh_token |-> refresh_token,
        raises |-> decode_token_raises(access_token, t)
                     \/ decode_token_raises(refresh_token, t),
        sessoes |-> <<NovaSessao(id, access_token)>>]

create_tokens(us, id, jti, t) ==
    LET token_data == LoginTokenData(us, id)
        access_token == create_access_token(token_data, jti, t)
        refresh_token == create_refresh_token(token_data, jti + 1, t)
    IN [access_token |-> access_token, refresh_token |-> refresh_token,
        raises |-> decode_token_raises(access_token, t)
                     \/ decode_token_raises(refresh_token, t),
        sessoes |-> <<NovaSessao(id, access_token), NovaSessao(id, refresh_token)>>]

----------------------------------------------------------------------------
(* get_current_user (backend/app/core/dependencies.py) *)

CurrentUser(ok, id, status, detail) ==
    [ok |-> ok, usuario_id |-> id, status |-> status, detail |-> detail]

\* a get_current_user that does not look at the active flag
get_current_user_SemAtivo(us, token, t) ==
    IF decode_token_raises(token, t) THEN
        CurrentUser(FALSE, NoUsuario, 401, "Token invalido ou expirado")
    ELSE IF ~verify_token_type(token, "access") THEN
        CurrentUser(FALSE, NoUsuario, 401, "Token de acesso invalido")
    ELSE
        LET user == UsuarioPorId(us, token.sub.val) IN
        IF user = NoUsuario THEN
            CurrentUser(FALSE, NoUsuario, 401, "Usuario nao encontrado")
        ELSE IF Bloqueado(us[user], t) THEN
            CurrentUser(FALSE, user, 403,
                "Usuario temporariamente bloqueado devido a multiplas tentativas de login falhas.")
        ELSE CurrentUser(TRUE, user, 200, "OK")

\* a get_current_user that does not look at the lockout
get_current_user_SemBloqueio(us, token, t) ==
    IF decode_token_raises(token, t) THEN
        CurrentUser(FALSE, NoUsuario, 401, "Token invalido ou expirado")
    ELSE IF ~verify_token_type(token, "access") THEN
        CurrentUser(FALSE, NoUsuario, 401, "Token de acesso invalido")
    ELSE
        LET user == UsuarioPorId(us, token.sub.val) IN
        IF user = NoUsuario THEN
            CurrentUser(FALSE, NoUsuario, 401, "Usuario nao encontrado")
        ELSE IF ~us[user].ativo THEN
            CurrentUser(FALSE, user, 403,
                "Usuario inativo. Entre em contato com o administrador.")
        ELSE CurrentUser(TRUE, user, 200, "OK")

get_current_user(us, token, t) ==
    IF decode_token_raises(token, t) THEN
        CurrentUser(FALSE, NoUsuario, 401, "Token invalido ou expirado")
    ELSE IF ~verify_token_type(token, "access") THEN
        CurrentUser(FALSE, NoUsuario, 401, "Token de acesso invalido")
    ELSE
        LET user == UsuarioPorId(us, token.sub.val) IN
        IF user = NoUsuario THEN
            CurrentUser(FALSE, NoUsuario, 401, "Usuario nao encontrado")
        ELSE IF ~us[user].ativo THEN
            CurrentUser(FALSE, user, 403,
                "Usuario inativo. Entre em contato com o administrador.")
        ELSE IF Bloqueado(us[user], t) THEN
            CurrentUser(FALSE, user, 403,
                "Usuario temporariamente bloqueado devido a multiplas tentativas de login falhas.")
        ELSE CurrentUser(TRUE, user, 200, "OK")

----------------------------------------------------------------------------
(* AuthService.refresh_access_token *)

RefreshTokenData(us, id) == TokenData(SubInt(id), us[id].email, us[id].perfil)

\* the session test without the revocation flag
SessaoInvalida_SoAusente(ss, sessao) == sessao = 0

\* "if not sessao or sessao.revogado"
SessaoInvalida(ss, sessao) == sessao = 0 \/ ss[sessao].revogado

RefreshResult(ok, status, detail, minted, ss) ==
    [ok |-> ok, status |-> status, detail |-> detail,
     minted |-> minted, sessoes |-> ss]

\* a refresh that stores the row of the new token before decoding it
refresh_access_token_GravaAntes(us, ss, refresh_token, jti, t) ==
    IF decode_token_raises(refresh_token, t) THEN
        RefreshResult(FALSE, 401, "Refresh token invalido ou expirado", {}, ss)
    ELSE IF ~verify_token_type(refresh_token, "refresh") THEN
        RefreshResult(FALSE, 401, "Token invalido: nao e um refresh token", {}, ss)
    ELSE
        LET sessao == SessaoPorJti(ss, refresh_token.jti) IN
        IF SessaoInvalida(ss, sessao) THEN
            RefreshResult(FALSE, 401, "Sessao invalida ou revogada", {}, ss)
        ELSE
            LET usuario == UsuarioPorId(us, refresh_token.sub.val) IN
            IF usuario = NoUsuario \/ ~us[usuario].ativo THEN
                RefreshResult(FALSE, 401, "Usuario nao encontrado ou inativo", {}, ss)
            ELSE
                LET new_access_token ==
                        create_access_token(RefreshTokenData(us, usuario), jti, t)
                    gravada == Append(ss, NovaSessao(usuario, new_access_token))
                IN
                IF decode_token_raises(new_access_token, t) THEN
                    RefreshResult(FALSE, 401, "Token invalido ou expirado",
                                  {new_access_token}, gravada)
                ELSE
                    RefreshResult(TRUE, 200, "OK", {new_access_token}, gravada)

refresh_access_token(us, ss, refresh_token, jti, t) ==
    IF decode_token_raises(refresh_token, t) THEN
        RefreshResult(FALSE, 401, "Refresh token invalido ou expirado", {}, ss)
    ELSE IF ~verify_token_type(refresh_token, "refresh") THEN
        RefreshResult(FALSE, 401, "Token invalido: nao e um refresh token", {}, ss)
    ELSE
        LET sessao == SessaoPorJti(ss, refresh_token.jti) IN
        IF SessaoInvalida(ss, sessao) THEN
            RefreshResult(FALSE, 401, "Sessao invalida ou revogada", {}, ss)
        ELSE
            LET usuario == UsuarioPorId(us, refresh_token.sub.val) IN
            IF usuario = NoUsuario \/ ~us[usuario].ativo THEN
                RefreshResult(FALSE, 401, "Usuario nao encontrado ou inativo", {}, ss)
            ELSE
                LET new_access_token ==
                        create_access_token(RefreshTokenData(us, usuario), jti, t)
                IN
                IF decode_token_raises(new_access_token, t) THEN
                    RefreshResult(FALSE, 401, "Token invalido ou expirado",
                                  {new_access_token}, ss)
                ELSE
                    RefreshResult(TRUE, 200, "OK", {new_access_token},
                                  Append(ss, NovaSessao(usuario, new_access_token)))

----------------------------------------------------------------------------
(* AuthService.logout: the table sessoes after the call *)

\* a logout that flips the flag instead of setting it
logout_Alterna(ss, token_jti) ==
    LET sessao == SessaoPorJti(ss, token_jti) IN
    IF sessao # 0 THEN [ss EXCEPT ![sessao].revogado = ~ss[sessao].revogado] ELSE ss

\* a logout that revokes every session of the owner of the row
logout_TodasDoUsuario(ss, token_jti) ==
    LET sessao == SessaoPorJti(ss, token_jti) IN
    IF sessao # 0
    THEN [i \in 1..Len(ss) |->
            IF ss[i].usuario_id = ss[sessao].usuario_id
            THEN [ss[i] EXCEPT !.revogado = TRUE] ELSE ss[i]]
    ELSE ss

\* a logout that deletes the row instead of marking it
logout_Apaga(ss, token_jti) == SelectSeq(ss, LAMBDA s : s.token_jti # token_jti)

logout(ss, token_jti) ==
    LET sessao == SessaoPorJti(ss, token_jti) IN
    IF sessao # 0 THEN [ss EXCEPT ![sessao].revogado = TRUE] ELSE ss

----------------------------------------------------------------------------
(* What the last request was, what its caller got back, and the state the   *)
(* row of the presented token was in when the request arrived               *)

EstadoSessao(ss, jti) ==
    LET i == SessaoPorJti(ss, jti) IN
    IF i = 0 THEN "nenhuma" ELSE IF ss[i].revogado THEN "revogada" ELSE "ativa"

Resposta(op, email, senha, token, status, detail, access, refresh, jti) ==
    [op |-> op, email |-> email, senha |-> senha,
     token |-> token.jti, assinado |-> token.assinado,
     sessao_antes |-> IF token.jti = NoToken THEN "n/a"
                      ELSE EstadoSessao(sessoes, token.jti),
     status |-> status, detail |-> detail,
     access_token |-> access, refresh_token |-> refresh,
     logout_jti |-> jti]

\* placeholder for the token of a request that carries none
SemToken == [jti |-> NoToken, assinado |-> FALSE]

\* an identifier taken from the clock: two tokens of one minute share it
NextJti_DoRelogio == now + 1

\* secrets.token_urlsafe(32): an identifier no earlier token has
NextJti == Cardinality(tokens) + 1

\* tokens a client can present: the signed ones and a forged one
Apresentaveis == tokens \cup {TokenForjado}

----------------------------------------------------------------------------
(* A login request being worked on by one thread of the server's pool: how   *)
(* far it got, its credentials and the account row its query loaded          *)

Workers == 1..MaxChamadas

LinhaVazia ==
    [email |-> "", senha_hash |-> hash_password(""), perfil |-> "", ativo |-> FALSE,
     tentativas_login |-> 0, bloqueado_ate |-> NULL, ultimo_login |-> NULL]

Ocioso ==
    [pc |-> "idle", email |-> "", senha |-> "", id |-> NoUsuario,
     lido |-> LinhaVazia, ok |-> FALSE, status |-> 0, detail |-> "",
     mensagem |-> "", ordem |-> 0]

----------------------------------------------------------------------------
(* State after the database is seeded: an active Admin and a deactivated user *)

Init ==
    /\ usuarios = [id \in UsuarioIds |->
            [email |-> IF id = 1 THEN "admin@pdifinance.com" ELSE "inativo@pdifinance.com",
             senha_hash |-> hash_password("Admin@2025"),
             perfil |-> IF id = 1 THEN "Admin" ELSE "Consulta",
             ativo |-> (id = 1),
             tentativas_login |-> 0,
             bloqueado_ate |-> NULL,
             ultimo_login |-> NULL]]
    /\ sessoes = << >>
    /\ auditoria = << >>
    /\ tokens = {}
    /\ now = 0
    /\ resp = [op |-> "none", email |-> "", senha |-> "",
               token |-> NoToken, assinado |-> FALSE, sessao_antes |-> "n/a",
               status |-> 0, detail |-> "",
               access_token |-> NoToken, refresh_token |-> NoToken,
               logout_jti |-> NoToken]
    /\ chamadas = [p \in Workers |-> Ocioso]

----------------------------------------------------------------------------
(* POST /auth/login *)

Outros(aud) == {i \in 1..Len(aud) : aud[i].usuario_id # 1}

LoginGuard(email) ==
    /\ Len(auditoria) < MaxAudit
    /\ email # "admin@pdifinance.com" => Cardinality(Outros(auditoria)) < MaxOutros

\* the handler, while the tokens signed so far leave room for two more
LoginAte(email, senha, limite) ==
    /\ LoginGuard(email)
    /\ LET a == authenticate_user(usuarios, email, senha, now) IN
       /\ a.ok => NextJti + 1 <= limite
       /\ usuarios' = a.usuarios
       /\ auditoria' = Append(auditoria, a.entrada)
       /\ IF a.ok THEN
              LET c == create_tokens(a.usuarios, a.usuario_id, NextJti, now) IN
              IF c.raises THEN
                  /\ UNCHANGED <<sessoes, tokens>>
                  /\ resp' = Resposta("login", email, senha, SemToken, 401,
                                  "Token invalido ou expirado", NoToken, NoToken, NoToken)
              ELSE
                  /\ sessoes' = sessoes \o c.sessoes
                  /\ tokens' = tokens \cup {c.access_token, c.refresh_token}
                  /\ resp' = Resposta("login", email, senha, SemToken, 200, "OK",
                                  c.access_token.jti, c.refresh_token.jti, NoToken)
          ELSE
              /\ UNCHANGED <<sessoes, tokens>>
              /\ resp' = Resposta("login", email, senha, SemToken,
                                  a.status, a.detail, NoToken, NoToken, NoToken)
    /\ UNCHANGED <<now, chamadas>>

Login(email, senha) == LoginAte(email, senha, MaxTokens)

(* POST /auth/refresh *)

Refresh(refresh_token) ==
    /\ LET r == refresh_access_token(usuarios, sessoes, refresh_token, NextJti, now) IN
       /\ r.ok => NextJti <= MaxTokens
       /\ sessoes' = r.sessoes
       /\ tokens' = IF r.ok THEN tokens \cup r.minted ELSE tokens
       /\ resp' = Resposta("refresh", "", "", refresh_token, r.status, r.detail,
                           IF r.ok THEN NextJti ELSE NoToken, NoToken, NoToken)
    /\ UNCHANGED <<usuarios, auditoria, now, chamadas>>

(* POST /auth/logout *)

Logout(token, scheme) ==
    /\ LET cu == get_current_user(usuarios, token, now) IN
       IF ~cu.ok THEN
           /\ UNCHANGED sessoes
           /\ resp' = Resposta("logout", "", "", token, cu.status, cu.detail,
                               NoToken, NoToken, NoToken)
       ELSE IF scheme = "Bearer" THEN
           /\ sessoes' = logout(sessoes, token.jti)
           /\ resp' = Resposta("logout", "", "", token, 200,
                               "Logout realizado com sucesso", NoToken, NoToken, token.jti)
       ELSE
           /\ UNCHANGED sessoes
           /\ resp' = Resposta("logout", "", "", token, 200,
                               "Logout realizado com sucesso", NoToken, NoToken, NoToken)
    /\ UNCHANGED <<usuarios, auditoria, tokens, now, chamadas>>

(* GET /auth/me *)

Me(token) ==
    /\ LET cu == get_current_user(usuarios, token, now) IN
       resp' = Resposta("me", "", "", token, cu.status, cu.detail,
                        NoToken, NoToken, NoToken)
    /\ UNCHANGED <<usuarios, sessoes, auditoria, tokens, now, chamadas>>

(* The clock *)

Tick ==
    /\ now + TickMinutes <= MaxTime
    /\ now' = now + TickMinutes
    /\ UNCHANGED <<usuarios, sessoes, auditoria, tokens, resp, chamadas>>

Next ==
    \/ \E c \in Credenciais : Login(c[1], c[2])
    \/ \E tk \in Apresentaveis : Refresh(tk)
    \/ \E tk \in Apresentaveis, scheme \in Schemes : Logout(tk, scheme)
    \/ \E tk \in Apresentaveis : Me(tk)
    \/ Tick

Spec == Init /\ [][Next]_vars

----------------------------------------------------------------------------
(* AuthService on its own: login and refresh, which the handlers pass        *)
(* through, logout called with any token id, and a commit that fails        *)

\* AuthService.logout(db, token_jti) called directly
AuthLogout(tk) ==
    /\ sessoes' = logout(sessoes, tk.jti)
    /\ resp' = Resposta("AuthService.logout", "", "", tk, 200,
                        "Logout realizado com sucesso", NoToken, NoToken, tk.jti)
    /\ UNCHANGED <<usuarios, auditoria, tokens, now, chamadas>>

\* POST /auth/login when the db.commit() of create_tokens raises: both tokens
\* are signed, neither row is stored, the handler answers 500
LoginCommitFails(email, senha) ==
    /\ LoginGuard(email)
    /\ LET a == authenticate_user(usuarios, email, senha, now) IN
       /\ a.ok
       /\ NextJti + 1 <= MaxTokens
       /\ usuarios' = a.usuarios
       /\ auditoria' = Append(auditoria, a.entrada)
       /\ LET c == create_tokens(a.usuarios, a.usuario_id, NextJti, now) IN
          /\ ~c.raises
          /\ tokens' = tokens \cup {c.access_token, c.refresh_token}
       /\ resp' = Resposta("login", email, senha, SemToken, 500,
                           "Erro ao processar login", NoToken, NoToken, NoToken)
    /\ UNCHANGED <<sessoes, now, chamadas>>

NextSvc ==
    \/ \E c \in Credenciais : Login(c[1], c[2])
    \/ \E tk \in Apresentaveis : Refresh(tk)
    \/ Tick
    \/ \E tk \in Apresentaveis : AuthLogout(tk)
    \/ \E c \in Credenciais : LoginCommitFails(c[1], c[2])

SpecSvc == Init /\ [][NextSvc]_vars

----------------------------------------------------------------------------
(* POST /auth/login when the db.commit() of _registrar_tentativa_login       *)
(* raises: the account row was committed before the audit write, the         *)
(* exception leaves authenticate_user and the handler answers 500            *)

LoginAuditFails(email, senha) ==
    /\ LoginGuard(email)
    /\ LET a == authenticate_user(usuarios, email, senha, now) IN
       /\ usuarios' = a.usuarios
       /\ resp' = Resposta("login", email, senha, SemToken, 500,
                           "Erro ao processar login", NoToken, NoToken, NoToken)
    /\ UNCHANGED <<sessoes, auditoria, tokens, now, chamadas>>

NextAudit ==
    \/ \E c \in Credenciais : Login(c[1], c[2])
    \/ \E c \in Credenciais : LoginAuditFails(c[1], c[2])

SpecAudit == Init /\ [][NextAudit]_vars

----------------------------------------------------------------------------

(* POST /auth/login served by several threads of the pool at once, each with *)
(* its own database session: authenticate_user in the steps at which the     *)
(* threads touch the database                                                *)

EmVoo == {p \in Workers : chamadas[p].pc # "idle"}

\* in-flight requests that may end by signing two tokens
PodemEmitir == {p \in Workers : chamadas[p].pc # "idle" /\ chamadas[p].senha = "Admin@2025"}

\* "usuario = db.query(Usuario).filter(Usuario.email == email).first()"
Carrega(p, email, senha) ==
    /\ chamadas[p].pc = "idle"
    /\ Len(auditoria) + Cardinality(EmVoo) < MaxAudit
    /\ email # "admin@pdifinance.com"
          => Cardinality(Outros(auditoria))
               + Cardinality({q \in EmVoo : chamadas[q].email # "admin@pdifinance.com"})
             < MaxOutros
    /\ senha = "Admin@2025"
          => Cardinality(tokens) + 2 * Cardinality(PodemEmitir) + 2 <= MaxTokens
    /\ LET id == UsuarioPorEmail(usuarios, email) IN
       chamadas' = [chamadas EXCEPT ![p] =
            [Ocioso EXCEPT !.pc = "lido", !.email = email, !.senha = senha, !.id = id,
                           !.lido = IF id = NoUsuario THEN LinhaVazia ELSE usuarios[id]]]
    /\ UNCHANGED <<usuarios, sessoes, auditoria, tokens, now, resp>>

\* what authenticate_user decides from the row the thread loaded
Decisao(ch) ==
    IF ch.id = NoUsuario
    THEN authenticate_user(usuarios, ch.email, ch.senha, now)
    ELSE authenticate_user([usuarios EXCEPT ![ch.id] = ch.lido], ch.email, ch.senha, now)

\* db.commit(): the UPDATE sets the columns the thread changed on its copy of
\* the row, to the values it computed from that copy
Commit(linha, lido, novo) ==
    [f \in DOMAIN linha |-> IF novo[f] # lido[f] THEN novo[f] ELSE linha[f]]

\* requests past their commit of the account row and not yet audited
Gravadas == {p \in Workers : chamadas[p].pc = "gravado"}

\* the checks, verify_password and the commit of the account row; ordem is
\* the place of this commit among the commits of all requests
Grava(p) ==
    /\ chamadas[p].pc = "lido"
    /\ LET ch == chamadas[p]
           a == Decisao(ch)
       IN /\ usuarios' = IF ch.id = NoUsuario THEN usuarios
                         ELSE [usuarios EXCEPT ![ch.id] =
                                  Commit(usuarios[ch.id], ch.lido, a.usuarios[ch.id])]
          /\ chamadas' = [chamadas EXCEPT ![p] =
                [ch EXCEPT !.pc = "gravado", !.ok = a.ok, !.status = a.status,
                           !.detail = a.detail, !.mensagem = a.entrada.mensagem,
                           !.ordem = Len(auditoria) + Cardinality(Gravadas) + 1]]
    /\ UNCHANGED <<sessoes, auditoria, tokens, now, resp>>

\* the row is expired by the commit: "settings.MAX_LOGIN_ATTEMPTS -
\* usuario.tentativas_login" reads the counter the table holds by then
TentativasRestantes(ch) == MAX_LOGIN_ATTEMPTS - usuarios[ch.id].tentativas_login

AbaixoDoLimite(ch) == ch.id # NoUsuario /\ ch.status = 401

\* _registrar_tentativa_login, create_tokens on success, and the response
Responde(p) ==
    /\ chamadas[p].pc = "gravado"
    /\ LET ch == chamadas[p]
           mensagem == IF AbaixoDoLimite(ch)
                       THEN "Senha incorreta. Tentativas restantes: "
                                \o ToString(TentativasRestantes(ch))
                       ELSE ch.mensagem
           detail == IF AbaixoDoLimite(ch)
                     THEN "Email ou senha incorretos. Tentativas restantes: "
                                \o ToString(TentativasRestantes(ch))
                     ELSE ch.detail
       IN /\ auditoria' = Append(auditoria,
                _registrar_tentativa_login(IF ch.id = NoUsuario THEN NULL ELSE ch.id,
                                           ch.email, ch.ok, mensagem))
          /\ IF ch.ok THEN
                 LET c == create_tokens(usuarios, ch.id, NextJti, now) IN
                 /\ sessoes' = sessoes \o c.sessoes
                 /\ tokens' = tokens \cup {c.access_token, c.refresh_token}
                 /\ resp' = Resposta("login", ch.email, ch.senha, SemToken, 200, "OK",
                                     c.access_token.jti, c.refresh_token.jti, NoToken)
             ELSE
                 /\ UNCHANGED <<sessoes, tokens>>
                 /\ resp' = Resposta("login", ch.email, ch.senha, SemToken,
                                     ch.status, detail, NoToken, NoToken, NoToken)
    /\ chamadas' = [chamadas EXCEPT ![p] = Ocioso]
    /\ UNCHANGED <<usuarios, now>>

NextConc ==
    \/ \E p \in Workers, c \in Credenciais : Carrega(p, c[1], c[2])
    \/ \E p \in Workers : Grava(p)
    \/ \E p \in Workers : Responde(p)

SpecConc == Init /\ [][NextConc]_vars

----------------------------------------------------------------------------

(* The endpoints together with the deactivation of an account, which sets    *)
(* usuarios.ativo to false from outside the authentication core              *)

Desativa(id) ==
    /\ usuarios[id].ativo
    /\ usuarios' = [usuarios EXCEPT ![id].ativo = FALSE]
    /\ UNCHANGED <<sessoes, auditoria, tokens, now, resp, chamadas>>

NextAdmin ==
    \/ \E c \in Credenciais : Login(c[1], c[2])
    \/ \E tk \in Apresentaveis : Refresh(tk)
    \/ \E tk \in Apresentaveis : Me(tk)
    \/ Tick
    \/ \E id \in UsuarioIds : Desativa(id)

SpecAdmin == Init /\ [][NextAdmin]_vars

----------------------------------------------------------------------------

(* The endpoints over the long run: besides the clock's minutes, a wait that  *)
(* outlasts the access tokens or the refresh tokens issued so far             *)

Validades == {ACCESS_TOKEN_EXPIRE_MINUTES, REFRESH_TOKEN_EXPIRE_DAYS * MinutesPerDay}

Passa(validade) ==
    /\ now <= MaxTime
    /\ now' = now + validade + 1
    /\ UNCHANGED <<usuarios, sessoes, auditoria, tokens, resp, chamadas>>

NextLongo ==
    \/ \E c \in Credenciais : Login(c[1], c[2])
    \/ \E tk \in Apresentaveis : Refresh(tk)
    \/ \E tk \in Apresentaveis : Me(tk)
    \/ Tick
    \/ \E validade \in Validades : Passa(validade)

SpecLongo == Init /\ [][NextLongo]_vars

----------------------------------------------------------------------------

(* The endpoints that write sessoes, with room for more than one login *)

NextSessoes ==
    \/ \E c \in Credenciais : LoginAte(c[1], c[2], MaxSessoes)
    \/ \E tk \in Apresentaveis : Refresh(tk)
    \/ \E tk \in Apresentaveis, scheme \in Schemes : Logout(tk, scheme)

SpecSessoes == Init /\ [][NextSessoes]_vars

----------------------------------------------------------------------------

(* Vocabulary of the properties *)

AdminEmail == "admin@pdifinance.com"
SenhaCerta == "Admin@2025"

MsgSenhaIncorreta(k) == "Senha incorreta. Tentativas restantes: " \o ToString(k)
MsgContaBloqueada == "Conta bloqueada por " \o ToString(LOGIN_BLOCK_MINUTES) \o " minutos"

\* the rows of auditoria_login written for one account, oldest first
LinhasDe(aud, id) == SelectSeq(aud, LAMBDA r : r.usuario_id = id)

\* the attempts on the account end with MAX_LOGIN_ATTEMPTS wrong passwords in a
\* row, the first of them counted from 0
ErrouAteOLimite(aud, id) ==
    LET rs == LinhasDe(aud, id)
        n == Len(rs)
    IN /\ n >= MAX_LOGIN_ATTEMPTS
       /\ \A k \in 1..(MAX_LOGIN_ATTEMPTS - 1) :
             rs[n - MAX_LOGIN_ATTEMPTS + k].mensagem = MsgSenhaIncorreta(MAX_LOGIN_ATTEMPTS - k)
       /\ rs[n].mensagem = MsgContaBloqueada

\* the account-locked error of authenticate_user, with m minutes to go
ErroBloqueado(r, m) ==
    /\ r.status = 403
    /\ r.detail = "Usuario temporariamente bloqueado. Tente novamente em "
                     \o ToString(m) \o " minutos."

\* the invalid-credentials error of a wrong password, with k attempts left
ErroCredenciais(r, k) ==
    /\ r.status = 401
    /\ r.detail = "Email ou senha incorretos. Tentativas restantes: " \o ToString(k)

SemTokens(r) == r.access_token = NoToken /\ r.refresh_token = NoToken

----------------------------------------------------------------------------
\* C1: after exactly MAX_LOGIN_ATTEMPTS consecutive wrong passwords on an
\* active account (the first counted from 0), a login made before the lockout
\* expiry is answered with the account-locked error whatever the password,
\* the right one included, and issues no token and stores no session.
C1_LockedAfterMaxAttempts ==
    [][\A c \in Credenciais :
        LET id == UsuarioPorEmail(usuarios, c[1]) IN
        (/\ resp'.op = "login"
         /\ Login(c[1], c[2])
         /\ id # NoUsuario
         /\ usuarios[id].ativo
         /\ ErrouAteOLimite(auditoria, id)
         /\ now < usuarios[id].bloqueado_ate)
        => /\ ErroBloqueado(resp', usuarios[id].bloqueado_ate - now)
           /\ SemTokens(resp')
           /\ sessoes' = sessoes
           /\ tokens' = tokens
           /\ usuarios' = usuarios]_vars

\* the right password was refused on the locked account
C1_Witness ==
    /\ resp.op = "login"
    /\ resp.email = AdminEmail
    /\ resp.senha = SenhaCerta
    /\ resp.status = 403
    /\ Len(auditoria) > MAX_LOGIN_ATTEMPTS
    /\ ErrouAteOLimite(SubSeq(auditoria, 1, Len(auditoria) - 1), 1)
    /\ auditoria[Len(auditoria)].usuario_id = 1
    /\ sessoes = << >>

\* C2: on an active account whose counter is k < MAX_LOGIN_ATTEMPTS - 1 and
\* that is Unlocked, a wrong password is answered with the invalid-credentials
\* error and leaves the counter at k + 1 and the account Unlocked; with the
\* counter at MAX_LOGIN_ATTEMPTS - 1 the wrong password fails, leaves the
\* counter at MAX_LOGIN_ATTEMPTS and sets the lockout expiry to now +
\* LOGIN_BLOCK_MINUTES; and every login made before that expiry is answered
\* with the account-locked error.
C2_FiveStrikesScenario ==
    [][\A c \in Credenciais :
        LET id == UsuarioPorEmail(usuarios, c[1]) IN
        (resp'.op = "login" /\ Login(c[1], c[2]) /\ id # NoUsuario /\ usuarios[id].ativo)
        => LET u == usuarios[id]
               k == u.tentativas_login
               errada == ~verify_password(c[2], u.senha_hash)
           IN /\ (errada /\ u.bloqueado_ate = NULL /\ k < MAX_LOGIN_ATTEMPTS - 1)
                 => /\ ErroCredenciais(resp', MAX_LOGIN_ATTEMPTS - (k + 1))
                    /\ SemTokens(resp')
                    /\ usuarios'[id].tentativas_login = k + 1
                    /\ usuarios'[id].bloqueado_ate = NULL
              /\ (errada /\ u.bloqueado_ate = NULL /\ k = MAX_LOGIN_ATTEMPTS - 1)
                 => /\ resp'.status # 200
                    /\ SemTokens(resp')
                    /\ usuarios'[id].tentativas_login = MAX_LOGIN_ATTEMPTS
                    /\ usuarios'[id].bloqueado_ate = now + LOGIN_BLOCK_MINUTES
              /\ (u.bloqueado_ate # NULL /\ now < u.bloqueado_ate)
                 => /\ ErroBloqueado(resp', u.bloqueado_ate - now)
                    /\ usuarios' = usuarios]_vars

\* a wrong password refused as locked, some minutes after the fifth strike
C2_Witness ==
    /\ resp.op = "login"
    /\ resp.email = AdminEmail
    /\ resp.senha # SenhaCerta
    /\ usuarios[1].tentativas_login = MAX_LOGIN_ATTEMPTS
    /\ now < usuarios[1].bloqueado_ate
    /\ usuarios[1].bloqueado_ate < now + LOGIN_BLOCK_MINUTES
    /\ ErroBloqueado(resp, usuarios[1].bloqueado_ate - now)
    /\ ErrouAteOLimite(SubSeq(auditoria, 1, Len(auditoria) - 1), 1)

\* C3: whenever authenticate_user returns successfully for an account, the
\* account's failed-attempt counter is 0, its lockout expiry is null and its
\* last successful login is the time of the call, whatever they were before.
C3_SuccessResetsAccount ==
    [][\A c \in Credenciais :
        (resp'.op = "login" /\ Login(c[1], c[2]) /\ auditoria'[Len(auditoria')].sucesso)
        => LET id == auditoria'[Len(auditoria')].usuario_id IN
           /\ id = UsuarioPorEmail(usuarios, c[1])
           /\ usuarios'[id].tentativas_login = 0
           /\ usuarios'[id].bloqueado_ate = NULL
           /\ usuarios'[id].ultimo_login = now]_vars

\* a login that succeeded on an account whose lockout had elapsed
C3_Witness ==
    /\ resp.op = "login"
    /\ resp.status = 200
    /\ Len(auditoria) > MAX_LOGIN_ATTEMPTS
    /\ auditoria[Len(auditoria)].sucesso
    /\ ErrouAteOLimite(SubSeq(auditoria, 1, Len(auditoria) - 1), 1)
    /\ usuarios[1].tentativas_login = 0
    /\ usuarios[1].bloqueado_ate = NULL
    /\ usuarios[1].ultimo_login = now

\* the session-revoked error of refresh_access_token
ErroSessao(r) == r.status = 401 /\ r.detail = "Sessao invalida ou revogada"

LogoutOk(r) == r.status = 200 /\ r.detail = "Logout realizado com sucesso"

\* C4: a refresh token that decodes (signed, unexpired, well formed) and is
\* of kind refresh, but whose Session row is missing or revoked, is refused by
\* refresh_access_token with the session-revoked error; no access token is
\* minted and no row is stored.
C4_RevokedOrMissingSessionRefused ==
    [][\A tk \in Apresentaveis :
        (/\ resp'.op = "refresh"
         /\ Refresh(tk)
         /\ ~decode_token_raises(tk, now)
         /\ verify_token_type(tk, "refresh")
         /\ EstadoSessao(sessoes, tk.jti) \in {"nenhuma", "revogada"})
        => /\ ErroSessao(resp')
           /\ SemTokens(resp')
           /\ sessoes' = sessoes
           /\ tokens' = tokens]_vars

\* a signed refresh token of a revoked session was presented and refused
C4_Witness ==
    /\ resp.op = "refresh"
    /\ resp.assinado
    /\ resp.sessao_antes = "revogada"
    /\ \E tk \in tokens : tk.jti = resp.token /\ tk.type = "refresh"
    /\ ErroSessao(resp)

\* C5 (as claimed): a refresh with a login's refresh token whose session is
\* neither revoked nor expired and whose account is active returns a new
\* access token and leaves the refresh token usable.
C5_RefreshReturnsAccessToken ==
    [][\A tk \in tokens :
        (/\ resp'.op = "refresh"
         /\ Refresh(tk)
         /\ verify_token_type(tk, "refresh")
         /\ ~decode_token_raises(tk, now)
         /\ EstadoSessao(sessoes, tk.jti) = "ativa"
         /\ usuarios[tk.sub.val].ativo)
        => /\ resp'.status = 200
           /\ resp'.access_token # NoToken
           /\ EstadoSessao(sessoes', tk.jti) = "ativa"]_vars

\* C6: AuthService.logout with a token id whose Session exists leaves that
\* Session revoked and answers success; called again with the same id, or
\* with an id that has no Session, it answers the same success and changes no
\* row of any table.
C6_LogoutIdempotent ==
    [][\A tk \in Apresentaveis :
        (resp'.op = "AuthService.logout" /\ AuthLogout(tk))
        => LET i == SessaoPorJti(sessoes, tk.jti) IN
           /\ LogoutOk(resp')
           /\ i # 0 => sessoes'[i].revogado
           /\ EstadoSessao(sessoes, tk.jti) \in {"nenhuma", "revogada"}
                 => sessoes' = sessoes
           /\ logout(sessoes', tk.jti) = sessoes'
           /\ UNCHANGED <<usuarios, auditoria, tokens>>]_vars

\* a second logout with the id of an already revoked Session, answered success
C6_Witness ==
    /\ resp.logout_jti # NoToken
    /\ resp.sessao_antes = "revogada"
    /\ LogoutOk(resp)
    /\ EstadoSessao(sessoes, resp.logout_jti) = "revogada"

\* C7 (as claimed): an access token whose Session a logout has revoked is
\* rejected by get_current_user.
C7_LoggedOutTokenRejected ==
    (resp.op = "me" /\ resp.assinado /\ resp.sessao_antes = "revogada")
        => resp.status # 200

\* the refresh token create_tokens issued together with an access token
ParDe(access) == {r \in tokens : r.type = "refresh" /\ r.jti = access.jti + 1
                                   /\ r.iat = access.iat /\ r.sub = access.sub}

MsgsSenhaErrada ==
    {MsgSenhaIncorreta(k) : k \in 0..MAX_LOGIN_ATTEMPTS} \cup {MsgContaBloqueada}

\* C10 (as claimed): a login with a wrong password on a known, active,
\* unlocked account gives the caller the status and the message that the same
\* login gives for an email no account has.
C10_SameResponseUnknownAndWrong ==
    (/\ resp.op = "login"
     /\ UsuarioPorEmail(usuarios, resp.email) # NoUsuario
     /\ auditoria[Len(auditoria)].mensagem \in MsgsSenhaErrada)
    => LET desconhecido ==
               authenticate_user(usuarios, "ninguem@pdifinance.com", resp.senha, now)
       IN /\ resp.status = desconhecido.status
          /\ resp.detail = desconhecido.detail

\* C11: every call of authenticate_user that completes, whichever branch it
\* takes, appends exactly one row to auditoria; the row's outcome flag is true
\* iff the call succeeded and its account id is null iff no account has the
\* email.
C11_OneAuditEntryPerAttempt ==
    [][\A c \in Credenciais :
        (resp'.op = "login" /\ Login(c[1], c[2]))
        => LET n == Len(auditoria)
               linha == auditoria'[n + 1]
           IN /\ Len(auditoria') = n + 1
              /\ SubSeq(auditoria', 1, n) = auditoria
              /\ linha.email_tentativa = c[1]
              /\ linha.sucesso <=> authenticate_user(usuarios, c[1], c[2], now).ok
              /\ linha.sucesso <=> resp'.status = 200
              /\ linha.usuario_id = NULL <=> UsuarioPorEmail(usuarios, c[1]) = NoUsuario]_vars

\* the log holds a row of an unknown email, a row of a success and, last, a
\* row of a wrong password
C11_Witness ==
    /\ resp.op = "login"
    /\ \E i \in 1..Len(auditoria) : auditoria[i].usuario_id = NULL
    /\ \E i \in 1..Len(auditoria) : auditoria[i].sucesso /\ auditoria[i].usuario_id = 1
    /\ auditoria[Len(auditoria)].mensagem \in MsgsSenhaErrada
    /\ ~auditoria[Len(auditoria)].sucesso
    /\ auditoria[Len(auditoria)].usuario_id = 1

\* C12 (as claimed): a login whose audit write fails is decided as the same
\* login with the write going through: with the right password on an active
\* unlocked account it answers 200 with both tokens, and on the failure paths
\* it answers the business error of that path.
C12_AuditFailureKeepsDecision ==
    [][\A c \in Credenciais :
        (resp'.op = "login" /\ LoginAuditFails(c[1], c[2]))
        => LET a == authenticate_user(usuarios, c[1], c[2], now) IN
           /\ resp'.status = a.status
           /\ resp'.detail = IF a.ok THEN "OK" ELSE a.detail
           /\ a.ok => resp'.access_token # NoToken /\ resp'.refresh_token # NoToken]_vars

\* C13: token issuance at login is all-or-nothing. Of the two tokens of one
\* create_tokens call either both have a row in sessoes or neither has; a
\* login answered 200 returns both tokens and both have their row; a login
\* that fails returns no token, and when it failed at the commit of
\* create_tokens neither of the two tokens it had signed has a row.
C13_TokenIssuanceAllOrNothing ==
    /\ \A a \in tokens :
          a.type = "access"
          => \A r \in ParDe(a) :
                EstadoSessao(sessoes, a.jti) = "nenhuma"
                    <=> EstadoSessao(sessoes, r.jti) = "nenhuma"
    /\ resp.op = "login"
       => IF resp.status = 200
          THEN /\ resp.access_token # NoToken
               /\ resp.refresh_token # NoToken
               /\ EstadoSessao(sessoes, resp.access_token) # "nenhuma"
               /\ EstadoSessao(sessoes, resp.refresh_token) # "nenhuma"
          ELSE /\ SemTokens(resp)
               /\ resp.status = 500
                  => /\ EstadoSessao(sessoes, Cardinality(tokens) - 1) = "nenhuma"
                     /\ EstadoSessao(sessoes, Cardinality(tokens)) = "nenhuma"

\* a login whose create_tokens failed at the commit: two tokens were signed,
\* none was returned and sessoes has no row
C13_Witness ==
    /\ resp.op = "login"
    /\ resp.status = 500
    /\ resp.senha = SenhaCerta
    /\ SemTokens(resp)
    /\ Cardinality(tokens) = 2
    /\ \E a \in tokens : a.type = "access" /\ ParDe(a) # {}
    /\ sessoes = << >>

\* C14: when login or refresh hands a token back to its caller, sessoes
\* already holds a row with the token's id and that row is not revoked.
C14_ReturnedTokenHasLiveSession ==
    resp.op \in {"login", "refresh"}
    => /\ resp.access_token # NoToken
          => EstadoSessao(sessoes, resp.access_token) = "ativa"
       /\ resp.refresh_token # NoToken
          => EstadoSessao(sessoes, resp.refresh_token) = "ativa"

\* a login has just returned its two tokens and both rows are stored
C14_Witness ==
    /\ resp.op = "login"
    /\ resp.status = 200
    /\ resp.access_token # NoToken
    /\ resp.refresh_token # NoToken
    /\ \E a \in tokens : a.jti = resp.access_token /\ a.type = "access"
    /\ \E i \in 1..Len(sessoes) :
          sessoes[i].token_jti = resp.access_token /\ ~sessoes[i].revogado
    /\ \E i \in 1..Len(sessoes) :
          sessoes[i].token_jti = resp.refresh_token /\ ~sessoes[i].revogado

\* the wrong passwords verified against the hash of the account, as the audit
\* log recorded them
SenhasErradas(aud, id) ==
    {i \in 1..Len(aud) : aud[i].usuario_id = id /\ aud[i].mensagem \in MsgsSenhaErrada}

\* C15 (as claimed): whatever the interleaving of concurrent logins with a
\* wrong password on one account, no increment is lost: once the calls have
\* completed, and no login has succeeded in between, the counter is the number
\* of wrong passwords that were verified, and no more than MAX_LOGIN_ATTEMPTS
\* wrong passwords were verified.
C15_NoLostIncrement ==
    (/\ EmVoo = {}
     /\ \A i \in 1..Len(auditoria) : ~auditoria[i].sucesso)
    => LET k == Cardinality(SenhasErradas(auditoria, 1)) IN
       /\ usuarios[1].tentativas_login = k
       /\ k <= MAX_LOGIN_ATTEMPTS

\* C16: a token is accepted only by the operations of its kind.
\* refresh_access_token rejects every token whose kind is not refresh, an
\* access token in particular, and mints and stores nothing; get_current_user
\* (behind GET /auth/me and POST /auth/logout) rejects every token whose kind
\* is not access, a refresh token in particular.
C16_TokenKindEnforced ==
    [][\A tk \in Apresentaveis :
        /\ (resp'.op = "refresh" /\ Refresh(tk) /\ tk.type # "refresh")
           => /\ resp'.status = 401
              /\ SemTokens(resp')
              /\ sessoes' = sessoes
              /\ tokens' = tokens
        /\ (resp'.op = "me" /\ Me(tk) /\ tk.type # "access")
           => resp'.status = 401
        /\ \A scheme \in Schemes :
              (resp'.op = "logout" /\ Logout(tk, scheme) /\ tk.type # "access")
              => resp'.status = 401 /\ sessoes' = sessoes]_vars

\* a signed access token with a live row, of an active account, was presented
\* to refresh and refused for its kind
C16_Witness ==
    /\ resp.op = "refresh"
    /\ resp.assinado
    /\ resp.sessao_antes = "ativa"
    /\ \E tk \in tokens : tk.jti = resp.token /\ tk.type = "access"
                             /\ usuarios[tk.sub.val].ativo
    /\ resp.status = 401
    /\ resp.detail = "Token invalido: nao e um refresh token"

MsgUsuarioInativo == "Usuario inativo. Entre em contato com o administrador."

\* C17: once the active flag of an account is false no flow authenticates it
\* or issues a token for it. A login with its email, the right password
\* included, is answered with the account-inactive error and leaves the
\* account row (counter and lockout expiry) as it was; a refresh with one of
\* its refresh tokens fails and mints nothing, on account of the flag when the
\* token decodes and its session is live; get_current_user with one of its
\* access tokens fails with the account-inactive error.
C17_InactiveAccountRefused ==
    [][/\ \A c \in Credenciais :
            LET id == UsuarioPorEmail(usuarios, c[1]) IN
            (resp'.op = "login" /\ Login(c[1], c[2]) /\ id # NoUsuario /\ ~usuarios[id].ativo)
            => /\ resp'.status = 403
               /\ resp'.detail = MsgUsuarioInativo
               /\ SemTokens(resp')
               /\ usuarios' = usuarios
               /\ sessoes' = sessoes
               /\ tokens' = tokens
       /\ \A tk \in tokens :
            (resp'.op = "refresh" /\ Refresh(tk) /\ tk.type = "refresh"
                /\ ~usuarios[tk.sub.val].ativo)
            => /\ resp'.status # 200
               /\ SemTokens(resp')
               /\ sessoes' = sessoes
               /\ tokens' = tokens
               /\ (~decode_token_raises(tk, now) /\ EstadoSessao(sessoes, tk.jti) = "ativa")
                  => resp'.detail = "Usuario nao encontrado ou inativo"
       /\ \A tk \in tokens :
            (resp'.op = "me" /\ Me(tk) /\ tk.type = "access"
                /\ ~usuarios[tk.sub.val].ativo)
            => /\ resp'.status # 200
               /\ ~decode_token_raises(tk, now)
                  => resp'.status = 403 /\ resp'.detail = MsgUsuarioInativo]_vars

\* the Admin logged in, was deactivated and then presented the access token,
\* still unexpired and with its row live, to GET /auth/me
C17_Witness ==
    /\ resp.op = "me"
    /\ resp.assinado
    /\ resp.sessao_antes = "ativa"
    /\ \E tk \in tokens : tk.jti = resp.token /\ tk.type = "access" /\ tk.sub.val = 1
                             /\ ~decode_token_raises(tk, now)
    /\ ~usuarios[1].ativo
    /\ resp.status = 403
    /\ resp.detail = MsgUsuarioInativo

\* C18: a token presented after its expires-at is rejected whatever its
\* signature and whatever the state of its session. refresh_access_token
\* answers the invalid-token error and mints and stores nothing, also when the
\* row of the refresh token exists and is not revoked; get_current_user
\* answers the invalid-token error.
C18_ExpiredTokenRejected ==
    [][\A tk \in Apresentaveis :
        /\ (resp'.op = "refresh" /\ Refresh(tk) /\ tk.exp < now)
           => /\ resp'.status = 401
              /\ resp'.detail = "Refresh token invalido ou expirado"
              /\ SemTokens(resp')
              /\ sessoes' = sessoes
              /\ tokens' = tokens
        /\ (resp'.op = "me" /\ Me(tk) /\ tk.exp < now)
           => /\ resp'.status = 401
              /\ resp'.detail = "Token invalido ou expirado"]_vars

\* a signed refresh token whose row is live was presented after its
\* expires-at and refused as invalid
C18_Witness ==
    /\ resp.op = "refresh"
    /\ resp.assinado
    /\ resp.sessao_antes = "ativa"
    /\ \E tk \in tokens : tk.jti = resp.token /\ tk.type = "refresh" /\ tk.exp < now
                             /\ usuarios[tk.sub.val].ativo
    /\ EstadoSessao(sessoes, resp.token) = "ativa"
    /\ resp.status = 401
    /\ resp.detail = "Refresh token invalido ou expirado"

\* the tokens the call signed
Emitidos(antes, depois) == depois \ antes

\* C19 (as claimed): every token the core mints carries the account id as a
\* string, whether create_tokens minted it at login or refresh_access_token
\* at refresh, so that the access token of a refresh decodes and is accepted
\* by get_current_user as the access token of a login is.
C19_SubjectIsString ==
    [][/\ \A c \in Credenciais :
            (resp'.op = "login" /\ Login(c[1], c[2]))
            => \A m \in Emitidos(tokens, tokens') :
                  /\ m.sub.repr = "str"
                  /\ ~decode_token_raises(m, now)
                  /\ m.type = "access" => get_current_user(usuarios', m, now).ok
       /\ \A tk \in Apresentaveis :
            (resp'.op = "refresh" /\ Refresh(tk))
            => \A m \in refresh_access_token(usuarios, sessoes, tk, NextJti, now).minted :
                  /\ m.sub.repr = "str"
                  /\ ~decode_token_raises(m, now)
                  /\ get_current_user(usuarios, m, now).ok]_vars

\* C20: no two rows of sessoes have the same token identifier, and no step
\* changes the token identifier, the owning account or the expiry of a row
\* that exists.
C20_TokenIdUniqueAndImmutable ==
    [][/\ \A i, j \in 1..Len(sessoes') :
            i # j => sessoes'[i].token_jti # sessoes'[j].token_jti
       /\ Len(sessoes') >= Len(sessoes)
       /\ \A i \in 1..Len(sessoes) :
            /\ sessoes'[i].token_jti = sessoes[i].token_jti
            /\ sessoes'[i].usuario_id = sessoes[i].usuario_id
            /\ sessoes'[i].expira_em = sessoes[i].expira_em]_vars

\* two logins stored their four rows and a logout then revoked one of them
C20_Witness ==
    /\ Len(sessoes) = 4
    /\ Cardinality({sessoes[i].token_jti : i \in 1..Len(sessoes)}) = 4
    /\ resp.op = "logout"
    /\ resp.logout_jti # NoToken
    /\ \E i \in 1..Len(sessoes) :
          /\ sessoes[i].token_jti = resp.logout_jti
          /\ sessoes[i].revogado
          /\ sessoes[i].usuario_id = 1
          /\ sessoes[i].expira_em = now + ACCESS_TOKEN_EXPIRE_MINUTES

\* C21: across logins, refreshes and logouts the only change made to a row of
\* sessoes that exists is revogado going from false to true: a revoked row is
\* never unrevoked and no row is deleted.
C21_OnlyRevocationMutatesSession ==
    [][/\ Len(sessoes') >= Len(sessoes)
       /\ \A i \in 1..Len(sessoes) :
            \/ sessoes'[i] = sessoes[i]
            \/ /\ ~sessoes[i].revogado
               /\ sessoes'[i] = [sessoes[i] EXCEPT !.revogado = TRUE]]_vars

\* after two logins, a logout presented the token of a row that was revoked
\* already: the row is still there and still revoked
C21_Witness ==
    /\ Len(sessoes) = 4
    /\ resp.op = "logout"
    /\ resp.logout_jti # NoToken
    /\ resp.sessao_antes = "revogada"
    /\ EstadoSessao(sessoes, resp.logout_jti) = "revogada"
    /\ \E i \in 1..Len(sessoes) : ~sessoes[i].revogado

\* the lockout of the account row has been reached by the clock
LockoutExpirado(u, t) == u.bloqueado_ate # NULL /\ ~Bloqueado(u, t)

\* C22 (as claimed): the counter of an account is reset to 0 exactly when a
\* login succeeds and when a new attempt is evaluated after the lockout expiry
\* has been reached; the first wrong password after an expired lockout is
\* counted from 0 and leaves the counter at 1 and the account Unlocked.
C22_CounterResetOnExpiry ==
    [][\A c \in Credenciais :
        LET id == UsuarioPorEmail(usuarios, c[1]) IN
        (resp'.op = "login" /\ Login(c[1], c[2]) /\ id # NoUsuario /\ usuarios[id].ativo)
        => LET u == usuarios[id]
               errada == ~verify_password(c[2], u.senha_hash)
           IN /\ (LockoutExpirado(u, now) /\ errada)
                 => /\ usuarios'[id].tentativas_login = 1
                    /\ usuarios'[id].bloqueado_ate = NULL
              /\ (u.tentativas_login # 0 /\ usuarios'[id].tentativas_login = 0)
                 => resp'.status = 200 \/ LockoutExpirado(u, now)]_vars

\* C23 (as claimed): every wrong password on an Unlocked account is answered
\* with the invalid-credentials error, the one whose increment reaches
\* MAX_LOGIN_ATTEMPTS and locks the account included; the account-locked
\* error answers only attempts made while the account is already Locked.
C23_WrongPasswordIsInvalidCredentials ==
    [][\A c \in Credenciais :
        LET id == UsuarioPorEmail(usuarios, c[1]) IN
        (resp'.op = "login" /\ Login(c[1], c[2]) /\ id # NoUsuario /\ usuarios[id].ativo)
        => LET u == usuarios[id] IN
           /\ (~Bloqueado(u, now) /\ ~verify_password(c[2], u.senha_hash))
              => /\ resp'.status = 401
                 /\ \E k \in 0..MAX_LOGIN_ATTEMPTS : ErroCredenciais(resp', k)
           /\ Bloqueado(u, now) => ErroBloqueado(resp', u.bloqueado_ate - now)]_vars

\* C24: a login on an account that is Locked (lockout expiry in the future)
\* is rejected with the account-locked error whatever the password, right or
\* wrong, the password playing no part in the decision; it writes its audit
\* row and changes nothing else: counter, lockout expiry and last successful
\* login are as before and no session is created.
C24_LockedLoginFrame ==
    [][\A c \in Credenciais :
        LET id == UsuarioPorEmail(usuarios, c[1]) IN
        (/\ resp'.op = "login"
         /\ Login(c[1], c[2])
         /\ id # NoUsuario
         /\ usuarios[id].ativo
         /\ usuarios[id].bloqueado_ate # NULL
         /\ usuarios[id].bloqueado_ate > now)
        => /\ ErroBloqueado(resp', usuarios[id].bloqueado_ate - now)
           /\ SemTokens(resp')
           /\ usuarios' = usuarios
           /\ sessoes' = sessoes
           /\ tokens' = tokens
           /\ ~auditoria'[Len(auditoria')].sucesso
           /\ \A senha \in Senhas :
                 authenticate_user(usuarios, c[1], senha, now)
                    = authenticate_user(usuarios, c[1], c[2], now)]_vars

\* some minutes into a lockout set after the clock had advanced, the right
\* password was refused and the account row is as the locking attempt left it
C24_Witness ==
    /\ resp.op = "login"
    /\ resp.email = AdminEmail
    /\ resp.senha = SenhaCerta
    /\ now > 0
    /\ usuarios[1].bloqueado_ate > now
    /\ usuarios[1].bloqueado_ate > LOGIN_BLOCK_MINUTES
    /\ ErroBloqueado(resp, usuarios[1].bloqueado_ate - now)
    /\ usuarios[1].tentativas_login = MAX_LOGIN_ATTEMPTS
    /\ usuarios[1].ultimo_login = NULL
    /\ tokens = {}

\* the same token, had it named an id that no row of usuarios has
DeContaAusente(tk) == [tk EXCEPT !.sub = SubStr(Cardinality(UsuarioIds) + 1)]

\* C25 (as claimed): on the flows that take a token, a missing account and an
\* inactive account are reported as distinct errors: what refresh_access_token
\* and get_current_user answer for a token of a deactivated account is not
\* what they answer when the token's subject resolves to no account.
C25_MissingAndInactiveDistinct ==
    [][\A tk \in tokens :
        /\ (/\ resp'.op = "refresh"
            /\ Refresh(tk)
            /\ tk.type = "refresh"
            /\ ~decode_token_raises(tk, now)
            /\ EstadoSessao(sessoes, tk.jti) = "ativa"
            /\ ~usuarios[tk.sub.val].ativo)
           => LET ausente == refresh_access_token(usuarios, sessoes,
                                 DeContaAusente(tk), NextJti, now)
              IN <<resp'.status, resp'.detail>> # <<ausente.status, ausente.detail>>
        /\ (/\ resp'.op = "me"
            /\ Me(tk)
            /\ tk.type = "access"
            /\ ~decode_token_raises(tk, now)
            /\ ~usuarios[tk.sub.val].ativo)
           => LET ausente == get_current_user(usuarios, DeContaAusente(tk), now)
              IN <<resp'.status, resp'.detail>> # <<ausente.status, ausente.detail>>]_vars

\* the request changed the account row it had loaded
Mutou(ch) == ch.id # NoUsuario /\ Decisao(ch).usuarios[ch.id] # ch.lido

\* C26 (as claimed): for one account under concurrent logins the audit rows
\* come in the order in which the account updates were committed: a request
\* appends its audit row only when no request on the same account that
\* committed its update earlier has its audit row still to write.
C26_AuditOrderFollowsCommitOrder ==
    [][\A p \in Workers :
        (resp'.op = "login" /\ chamadas[p].pc = "gravado" /\ Responde(p)
            /\ Mutou(chamadas[p]))
        => \A q \in Gravadas \ {p} :
              (chamadas[q].id = chamadas[p].id /\ Mutou(chamadas[q]))
              => chamadas[q].ordem > chamadas[p].ordem]_vars

\* C27: sessoes grows only by successful issuance. A login answered 200 adds
\* exactly two rows, one per returned token, both unrevoked and owned by the
\* authenticated account; a refresh answered 200 adds exactly one, owned by
\* the account of the refresh token; a failed login, a failed refresh and a
\* logout add none; the number of rows never decreases.
C27_SessionLedgerGrowth ==
    [][/\ Len(sessoes') >= Len(sessoes)
       /\ (resp'.op = "login" /\ LoginAte(resp'.email, resp'.senha, MaxSessoes))
          => IF resp'.status = 200
             THEN LET n == Len(sessoes) IN
                  /\ Len(sessoes') = n + 2
                  /\ SubSeq(sessoes', 1, n) = sessoes
                  /\ sessoes'[n + 1].token_jti = resp'.access_token
                  /\ sessoes'[n + 2].token_jti = resp'.refresh_token
                  /\ \A i \in {n + 1, n + 2} :
                        /\ sessoes'[i].usuario_id = UsuarioPorEmail(usuarios, resp'.email)
                        /\ ~sessoes'[i].revogado
             ELSE sessoes' = sessoes
       /\ \A tk \in Apresentaveis :
            (resp'.op = "refresh" /\ tk.jti = resp'.token /\ Refresh(tk))
            => IF resp'.status = 200
               THEN /\ Len(sessoes') = Len(sessoes) + 1
                    /\ SubSeq(sessoes', 1, Len(sessoes)) = sessoes
                    /\ sessoes'[Len(sessoes')].usuario_id = tk.sub.val
                    /\ sessoes'[Len(sessoes')].token_jti = resp'.access_token
                    /\ ~sessoes'[Len(sessoes')].revogado
               ELSE sessoes' = sessoes
       /\ resp'.op = "logout" => Len(sessoes') = Len(sessoes)]_vars

\* after a failed login, a first login and a refresh that stored nothing, a
\* second login succeeded and its two rows are the last two of four
C27_Witness ==
    /\ resp.op = "login"
    /\ resp.status = 200
    /\ Len(sessoes) = 4
    /\ sessoes[3].token_jti = resp.access_token
    /\ sessoes[4].token_jti = resp.refresh_token
    /\ \A i \in 3..4 : sessoes[i].usuario_id = 1 /\ ~sessoes[i].revogado
    /\ \E i \in 1..Len(auditoria) : ~auditoria[i].sucesso
    /\ Cardinality({i \in 1..Len(auditoria) : auditoria[i].sucesso}) = 2

\* C28 (as claimed): in every state reached through login attempts alone, an
\* account with a lockout expiry has a counter of at least MAX_LOGIN_ATTEMPTS,
\* and an account whose counter is below MAX_LOGIN_ATTEMPTS has no lockout
\* expiry.
C28_LockoutImpliesCounterAtLimit ==
    \A id \in UsuarioIds :
        /\ usuarios[id].bloqueado_ate # NULL
              => usuarios[id].tentativas_login >= MAX_LOGIN_ATTEMPTS
        /\ usuarios[id].tentativas_login < MAX_LOGIN_ATTEMPTS
              => usuarios[id].bloqueado_ate = NULL

\* C29: the expiry of a lockout leaves the counter at the value it had; with
\* no successful login in between, one more wrong password locks the account
\* again at once, for a full LOGIN_BLOCK_MINUTES and with the counter above
\* MAX_LOGIN_ATTEMPTS; the clock alone changes no account, and the counter of
\* an account goes down only by a successful login.
C29_ExpiredLockoutRelocks ==
    [][/\ (now' # now) => usuarios' = usuarios
       /\ \A c \in Credenciais :
            LET id == UsuarioPorEmail(usuarios, c[1]) IN
            (resp'.op = "login" /\ Login(c[1], c[2]) /\ id # NoUsuario /\ usuarios[id].ativo)
            => LET u == usuarios[id] IN
               /\ (/\ u.bloqueado_ate # NULL
                   /\ u.bloqueado_ate <= now
                   /\ ~verify_password(c[2], u.senha_hash))
                  => /\ u.tentativas_login >= MAX_LOGIN_ATTEMPTS
                     /\ usuarios'[id].tentativas_login = u.tentativas_login + 1
                     /\ usuarios'[id].tentativas_login > MAX_LOGIN_ATTEMPTS
                     /\ usuarios'[id].bloqueado_ate = now + LOGIN_BLOCK_MINUTES
                     /\ resp'.status = 403
                     /\ SemTokens(resp')
               /\ usuarios'[id].tentativas_login < u.tentativas_login
                  => /\ resp'.status = 200
                     /\ usuarios'[id].tentativas_login = 0]_vars

\* the account was locked at minute 0, the lockout ran out, and one wrong
\* password locked it again with the counter past the limit
C29_Witness ==
    /\ resp.op = "login"
    /\ resp.email = AdminEmail
    /\ resp.senha # SenhaCerta
    /\ resp.status = 403
    /\ now > LOGIN_BLOCK_MINUTES
    /\ usuarios[1].tentativas_login = MAX_LOGIN_ATTEMPTS + 1
    /\ usuarios[1].bloqueado_ate = now + LOGIN_BLOCK_MINUTES
    /\ Len(auditoria) = MAX_LOGIN_ATTEMPTS + 1
    /\ auditoria[Len(auditoria)].mensagem = MsgContaBloqueada
    /\ ErrouAteOLimite(SubSeq(auditoria, 1, MAX_LOGIN_ATTEMPTS), 1)

\* C30: while an account is locked, get_current_user rejects every access
\* token of that account with the lockout error, the tokens a successful
\* login issued before the lock was set included, so neither /auth/me nor
\* /auth/logout goes through; refresh_access_token gives the same result
\* for a locked account as for the same account without the lock.
C30_LockedAccountTokensRejected ==
    [][\A tk \in tokens :
         LET id == tk.sub.val
             trancada == /\ id \in UsuarioIds
                         /\ usuarios[id].ativo
                         /\ usuarios[id].bloqueado_ate # NULL
                         /\ usuarios[id].bloqueado_ate > now
         IN
         /\ (/\ resp'.op \in {"me", "logout"}
             /\ resp'.assinado
             /\ tk.jti = resp'.token
             /\ tk.type = "access"
             /\ tk.sub.repr = "str"
             /\ tk.exp >= now
             /\ trancada)
            => /\ resp'.status = 403
               /\ resp'.detail = "Usuario temporariamente bloqueado devido a multiplas tentativas de login falhas."
               /\ sessoes' = sessoes
         /\ (/\ resp'.op = "refresh"
             /\ resp'.assinado
             /\ tk.jti = resp'.token
             /\ trancada)
            => LET livres == [usuarios EXCEPT ![id].bloqueado_ate = NULL]
                   r == refresh_access_token(usuarios, sessoes, tk, NextJti, now)
                   l == refresh_access_token(livres, sessoes, tk, NextJti, now)
               IN  /\ r = l
                   /\ resp'.status = r.status
                   /\ resp'.detail = r.detail
                   /\ resp'.detail # "Usuario temporariamente bloqueado devido a multiplas tentativas de login falhas."]_vars

\* the Admin logged in, was then locked by wrong passwords, and the access
\* token of that login was refused for the lockout
C30_Witness ==
    /\ resp.op = "me"
    /\ resp.assinado
    /\ resp.status = 403
    /\ resp.detail = "Usuario temporariamente bloqueado devido a multiplas tentativas de login falhas."
    /\ usuarios[1].ativo
    /\ usuarios[1].bloqueado_ate # NULL
    /\ usuarios[1].bloqueado_ate > now
    /\ \E tk \in tokens :
         /\ tk.jti = resp.token
         /\ tk.type = "access"
         /\ tk.sub = SubStr(1)
         /\ tk.iat < usuarios[1].bloqueado_ate - LOGIN_BLOCK_MINUTES
         /\ tk.exp >= now
    /\ auditoria[1].sucesso

TypeOK ==
    /\ now \in 0..MaxTime
    /\ Len(auditoria) <= MaxAudit
    /\ Cardinality(tokens) <= MaxTokens

====
